---- MODULE Spec2Model ----
(***************************************************************************)
(* A model of app.py: the 2025 marginal-bracket tax estimator and the      *)
(* JSON-file store of net-income entries and activity.                     *)
(*                                                                         *)
(* Money is modelled in whole currency units (integers).  A rate is an     *)
(* integer number of 1/RateScale, so a tax is an integer number of         *)
(* 1/RateScale currency units; Python's float rounding is not modelled.    *)
(***************************************************************************)
EXTENDS Integers, Sequences, FiniteSets, TLC

VARIABLES
    calc,         \* the calculator harness: table, last two calls of calc_marginal_tax
    file,         \* data/finance.json: exists, net_income_entries, activity
    clock,        \* datetime.now(timezone.utc), as a tick counter
    resp,         \* the last request served sequentially and its HTTP response
    savedLog,     \* history: every entry ever saved, in save order, edits applied
    activityLog,  \* history: every activity line ever logged, in order
    nops,         \* number of requests served so far
    pc,           \* per concurrent request: its position in the handler
    req,          \* per concurrent request: the request being served
    local,        \* per concurrent request: the `data` dict it loaded
    out,          \* per concurrent request: its response and what it logged
    writes        \* the concurrent requests that wrote the file, in write order

vars == <<calc, file, clock, resp, savedLog, activityLog, nops,
          pc, req, local, out, writes>>

storeVars == <<file, clock, resp, savedLog, activityLog, nops>>
concVars == <<pc, req, local, out, writes>>

-----------------------------------------------------------------------------
(* Bounds of the model *)

MaxBrackets == 3
MaxUpper == 3
MaxRate == 2
MaxIncome == 5

-----------------------------------------------------------------------------
(* Numbers *)

\* float("inf"), the upper limit of every table's last bracket
Inf == -1

\* a rate r of the source is the integer r * RateScale
RateScale == 10000

Max(a, b) == IF a >= b THEN a ELSE b

Min(a, b) == IF a <= b THEN a ELSE b

\* min(remaining, upper - lower) for a finite lower edge; inf - lower = inf
BandWidth(remaining, upper, lower) ==
    IF upper = Inf THEN remaining ELSE Min(remaining, upper - lower)

-----------------------------------------------------------------------------
(* Tax math *)

RECURSIVE CalcLoopOverwrite(_, _, _, _, _)
\* the loop with `tax = band * rate` in place of `tax += band * rate`
CalcLoopOverwrite(brackets, i, tax, remaining, lower) ==
    IF i > Len(brackets) \/ remaining <= 0 THEN tax
    ELSE LET upper == brackets[i][1]
             rate == brackets[i][2]
             band == BandWidth(remaining, upper, lower)
         IN  IF band > 0
             THEN CalcLoopOverwrite(brackets, i + 1, band * rate, remaining - band, upper)
             ELSE CalcLoopOverwrite(brackets, i + 1, tax, remaining, upper)

RECURSIVE CalcLoopNoLower(_, _, _, _, _)
\* the loop without `lower = upper`: every band is measured from 0
CalcLoopNoLower(brackets, i, tax, remaining, lower) ==
    IF i > Len(brackets) \/ remaining <= 0 THEN tax
    ELSE LET upper == brackets[i][1]
             rate == brackets[i][2]
             band == BandWidth(remaining, upper, lower)
         IN  IF band > 0
             THEN CalcLoopNoLower(brackets, i + 1, tax + band * rate, remaining - band, lower)
             ELSE CalcLoopNoLower(brackets, i + 1, tax, remaining, lower)

RECURSIVE CalcLoop(_, _, _, _, _)
\* the for loop of calc_marginal_tax from bracket i on, with its three locals
CalcLoop(brackets, i, tax, remaining, lower) ==
    IF i > Len(brackets) THEN tax
    ELSE IF remaining <= 0 THEN tax
    ELSE LET upper == brackets[i][1]
             rate == brackets[i][2]
             band == BandWidth(remaining, upper, lower)
         IN  IF band > 0
             THEN CalcLoop(brackets, i + 1, tax + band * rate, remaining - band, upper)
             ELSE CalcLoop(brackets, i + 1, tax, remaining, upper)

calc_marginal_tax(taxable_income, brackets) ==
    CalcLoop(brackets, 1, 0, Max(0, taxable_income), 0)

-----------------------------------------------------------------------------
(* The calculator on bounded inputs *)

\* tables whose upper limits strictly increase from above 0 and end in inf
ValidTables ==
    { t \in UNION { [1..n -> ((1..MaxUpper) \cup {Inf}) \X (0..MaxRate)] : n \in 1..MaxBrackets } :
        /\ t[Len(t)][1] = Inf
        /\ \A i \in 1..(Len(t) - 1) : t[i][1] # Inf
        /\ \A i \in 1..(Len(t) - 1) : t[i + 1][1] = Inf \/ t[i][1] < t[i + 1][1] }

Incomes == (-1)..MaxIncome

NoCall == [made |-> FALSE, income |-> 0, tax |-> 0]

InitCalc ==
    /\ calc \in [table : ValidTables, last : {NoCall}, prev : {NoCall}]

\* one call calc_marginal_tax(x, table); the call before it is kept to compare
Compute ==
    \E x \in Incomes :
        /\ calc' = [calc EXCEPT
                       !.prev = calc.last,
                       !.last = [made |-> TRUE, income |-> x,
                                 tax |-> calc_marginal_tax(x, calc.table)]]
        /\ UNCHANGED <<storeVars, concVars>>

-----------------------------------------------------------------------------
(* Tax tables (2025), rates in 1/RateScale *)

FedStatuses == {"single", "mfj", "hoh"}

FED_STANDARD_DEDUCTION_2025(status) ==
    CASE status = "single" -> 15000
      [] status = "mfj" -> 30000
      [] status = "hoh" -> 22500

FED_BRACKETS_2025(status) ==
    CASE status = "single" ->
            << <<11925, 1000>>, <<48475, 1200>>, <<103350, 2200>>, <<197300, 2400>>,
               <<250525, 3200>>, <<626350, 3500>>, <<Inf, 3700>> >>
      [] status = "mfj" ->
            << <<23850, 1000>>, <<96950, 1200>>, <<206700, 2200>>, <<394600, 2400>>,
               <<501050, 3200>>, <<751600, 3500>>, <<Inf, 3700>> >>
      [] status = "hoh" ->
            << <<17000, 1000>>, <<64850, 1200>>, <<103350, 2200>>, <<197300, 2400>>,
               <<250500, 3200>>, <<626350, 3500>>, <<Inf, 3700>> >>

StateCodes == {"CA", "NY", "WA", "FL"}

NoTaxBrackets == << <<Inf, 0>> >>

STATE_BRACKETS_2025_SINGLE(code) ==
    CASE code = "CA" ->
            << <<10756, 100>>, <<25500, 200>>, <<40245, 400>>, <<55866, 600>>,
               <<70606, 800>>, <<360659, 930>>, <<432787, 1030>>, <<720110, 1130>>,
               <<Inf, 1230>> >>
      [] code = "NY" ->
            << <<8500, 400>>, <<11700, 450>>, <<13900, 525>>, <<80650, 550>>,
               <<215400, 600>>, <<1077550, 685>>, <<5000000, 965>>, <<25000000, 1030>>,
               <<Inf, 1090>> >>
      [] code = "WA" -> NoTaxBrackets
      [] code = "FL" -> NoTaxBrackets

-----------------------------------------------------------------------------
(* Strings and JSON values of a request payload *)

\* str.lower() on the strings of the model
Lower(s) ==
    CASE s = "Weekly" -> "weekly"
      [] s = "YEARLY" -> "yearly"
      [] s = "Daily" -> "daily"
      [] s = "MFJ" -> "mfj"
      [] s = "HoH" -> "hoh"
      [] s = "CA" -> "ca"
      [] s = "NY" -> "ny"
      [] s = "WA" -> "wa"
      [] s = "FL" -> "fl"
      [] s = "TX" -> "tx"
      [] OTHER -> s

\* str.upper() on the strings of the model
Upper(s) ==
    CASE s = "ca" -> "CA"
      [] s = "ny" -> "NY"
      [] s = "wa" -> "WA"
      [] s = "fl" -> "FL"
      [] s = "tx" -> "TX"
      [] s = "mfj" -> "MFJ"
      [] OTHER -> s

\* str.strip() on the labels of the model; each is shorter than 60 characters,
\* so the [:60] that follows keeps it whole
Strip(s) == IF s = "  Rent " THEN "Rent" ELSE s

\* A string field of the payload is <<>> (key missing or null) or <<s>>.
\* `payload.get(key) or default`: a missing, null or empty string is falsy.
OrDefault(field, default) ==
    IF field = <<>> \/ field[1] = "" THEN default ELSE field[1]

\* A numeric field of the payload: key missing, JSON null, a string that is
\* no number, a JSON number, or a string that spells a number.
Missing == [kind |-> "missing", val |-> 0]
Null == [kind |-> "null", val |-> 0]
Text == [kind |-> "text", val |-> 0]
Num(n) == [kind |-> "num", val |-> n]
NumStr(n) == [kind |-> "numstr", val |-> n]

\* payload.get(key, default)
GetNum(field, default) == IF field.kind = "missing" THEN Num(default) ELSE field

\* float(v): raises TypeError on None and ValueError on a non-numeric string
FloatRaises(v) == v.kind \in {"null", "text"}

\* try: float(payload.get(key, default)) except (TypeError, ValueError): fallback
FloatOr(field, default, fallback) ==
    LET v == GetNum(field, default)
    IN  IF FloatRaises(v) THEN fallback ELSE v.val

-----------------------------------------------------------------------------
(* Estimators *)

estimate_federal_tax_2025(gross_annual, filing_status) ==
    LET lowered == Lower(filing_status)
        status == IF lowered \notin FedStatuses THEN "single" ELSE lowered
        standard_deduction == FED_STANDARD_DEDUCTION_2025(status)
        taxable == Max(0, gross_annual - standard_deduction)
    IN  [standard_deduction |-> standard_deduction,
         taxable_income |-> taxable,
         federal_tax |-> calc_marginal_tax(taxable, FED_BRACKETS_2025(status))]

estimate_state_tax_2025_single(gross_annual, state_code) ==
    LET code == Upper(state_code)
        brackets == IF code \in StateCodes THEN STATE_BRACKETS_2025_SINGLE(code)
                    ELSE NoTaxBrackets
        taxable == Max(0, gross_annual)
    IN  [state_taxable_income |-> taxable,
         state_tax |-> calc_marginal_tax(taxable, brackets)]

annualize(amount, frequency) ==
    LET freq == Lower(frequency)
    IN  IF freq = "weekly" THEN amount * 52
        ELSE IF freq = "bi-weekly" \/ freq = "biweekly" THEN amount * 26
        ELSE IF freq = "monthly" THEN amount * 12
        ELSE amount

\* lines 222-225: gross_annual of api_estimate
GrossOf(payload) == FloatOr(payload.gross_annual, 0, 0)

\* max(0.0, gross_annual - total_tax) in 1/RateScale units, unclamped
NetAnnualUnclamped(gross_annual, total_tax) == gross_annual * RateScale - total_tax

\* line 234: max(0.0, gross_annual - total_tax), in 1/RateScale units
NetAnnual(gross_annual, total_tax) == Max(0, gross_annual * RateScale - total_tax)

\* the JSON body api_estimate returns; taxes and net_annual in 1/RateScale units
EstimateBody(payload) ==
    LET gross_annual == GrossOf(payload)
        filing_status == Lower(OrDefault(payload.filing_status, "single"))
        state == Upper(OrDefault(payload.state, "WA"))
        fed == estimate_federal_tax_2025(gross_annual, filing_status)
        st == estimate_state_tax_2025_single(gross_annual, state)
        total_tax == fed.federal_tax + st.state_tax
    IN  [gross_annual |-> gross_annual,
         filing_status |-> filing_status,
         state |-> state,
         federal |-> fed,
         state_detail |-> st,
         total_tax |-> total_tax,
         net_annual |-> NetAnnual(gross_annual, total_tax)]

-----------------------------------------------------------------------------
(* JSON storage helpers *)

EntriesCap == 100
ActivityCap == 50

\* Python's s[-n:]
LastN(s, n) == IF Len(s) <= n THEN s ELSE SubSeq(s, Len(s) - n + 1, Len(s))

\* Python's s[:n]
FirstN(s, n) == IF Len(s) <= n THEN s ELSE SubSeq(s, 1, n)

EmptyDoc == [net_income_entries |-> <<>>, activity |-> <<>>]

NoFile == [exists |-> FALSE, net_income_entries |-> <<>>, activity |-> <<>>]

\* the file as _load_data leaves it: created with two empty lists when absent
FileAfterLoad(f) ==
    IF f.exists THEN f
    ELSE [exists |-> TRUE, net_income_entries |-> <<>>, activity |-> <<>>]

\* the dict _load_data returns
_load_data(f) ==
    LET g == FileAfterLoad(f)
    IN  [net_income_entries |-> g.net_income_entries, activity |-> g.activity]

\* the file after _save_data(data)
_save_data(data) ==
    [exists |-> TRUE,
     net_income_entries |-> data.net_income_entries,
     activity |-> data.activity]

\* _log_activity keeping the oldest ActivityCap lines
LogActivityKeepOldest(data, message, now) ==
    [data EXCEPT !.activity =
        FirstN(Append(@, [ts |-> now, message |-> message]), ActivityCap)]

_log_activity(data, message, now) ==
    [data EXCEPT !.activity =
        LastN(Append(@, [ts |-> now, message |-> message]), ActivityCap)]

\* f"{verb} net income: {net_amount:,.2f} ({frequency})"
Message(verb, net_amount, frequency) == <<verb, net_amount, frequency>>

-----------------------------------------------------------------------------
(* The bodies of the two write handlers, as functions of the loaded data *)

Frequencies == {"weekly", "bi-weekly", "biweekly", "monthly", "yearly"}

\* the check left out: an unrecognized frequency is stored as it came
FrequencyUnchecked(frequency) == frequency

\* lines 260-261 and 302-303
NormalizeFrequency(frequency) ==
    IF frequency \notin Frequencies THEN "monthly" ELSE frequency

\* net_amount of the edit with the fallbacks of the save handler
EditNetAmountZero(payload, latest) == FloatOr(payload.net_amount, 0, 0)

\* lines 254-257: net_amount of api_save_net_income
SaveNetAmount(payload) == FloatOr(payload.net_amount, 0, 0)

\* lines 296-299: net_amount of api_update_latest_net_income
EditNetAmount(payload, latest) ==
    FloatOr(payload.net_amount, latest.net_amount, latest.net_amount)

\* data["net_income_entries"][-100:] taken from the front
TrimEntriesKeepOldest(entries) == FirstN(entries, EntriesCap)

\* line 276
TrimEntries(entries) == LastN(entries, EntriesCap)

\* lines 252-279 of api_save_net_income, given the loaded data
SaveBody(data, payload, now) ==
    LET label == Strip(OrDefault(payload.label, "Net income"))
        net_amount == SaveNetAmount(payload)
        frequency == NormalizeFrequency(Lower(OrDefault(payload.frequency, "monthly")))
        entry == [id |-> now,
                  ts |-> now,
                  label |-> label,
                  net_amount |-> net_amount,
                  frequency |-> frequency,
                  net_annual_equivalent |-> annualize(net_amount, frequency),
                  ts_edited |-> <<>>]
        message == Message("Saved", net_amount, frequency)
        appended == [data EXCEPT !.net_income_entries = TrimEntries(Append(@, entry))]
    IN  [data |-> _log_activity(appended, message, now),
         entry |-> entry,
         message |-> [ts |-> now, message |-> message]]

\* lines 293-309: the latest entry as the edit leaves it
EditedLatest(latest, payload, now) ==
    LET label == Strip(OrDefault(payload.label, OrDefault(<<latest.label>>, "Net income")))
        net_amount == EditNetAmount(payload, latest)
        frequency == NormalizeFrequency(Lower(
                        OrDefault(payload.frequency, OrDefault(<<latest.frequency>>, "monthly"))))
    IN  [latest EXCEPT
            !.label = label,
            !.net_amount = net_amount,
            !.frequency = frequency,
            !.net_annual_equivalent = annualize(net_amount, frequency),
            !.ts_edited = <<now>>]

\* the edit that appends the edited copy instead of mutating the latest in place
EditBodyAppend(data, payload, now) ==
    LET entries == data.net_income_entries
        edited == EditedLatest(entries[Len(entries)], payload, now)
        message == Message("Edited latest", edited.net_amount, edited.frequency)
        mutated == [data EXCEPT !.net_income_entries = TrimEntries(Append(@, edited))]
    IN  [data |-> _log_activity(mutated, message, now),
         entry |-> edited,
         message |-> [ts |-> now, message |-> message]]

\* lines 293-312 of api_update_latest_net_income, given loaded data with an entry
EditBody(data, payload, now) ==
    LET entries == data.net_income_entries
        edited == EditedLatest(entries[Len(entries)], payload, now)
        message == Message("Edited latest", edited.net_amount, edited.frequency)
        mutated == [data EXCEPT !.net_income_entries[Len(entries)] = edited]
    IN  [data |-> _log_activity(mutated, message, now),
         entry |-> edited,
         message |-> [ts |-> now, message |-> message]]

-----------------------------------------------------------------------------
(* Requests *)

MaxOps == 2

NetAmountInputs == {Missing, Null, Text, Num(5000), NumStr(120)}

FrequencyInputs ==
    {<<>>, <<"">>, <<"Weekly">>, <<"bi-weekly">>, <<"YEARLY">>, <<"Daily">>}

\* every amount with every frequency under the default label, and one labelled payload
WritePayloads ==
    [label : {<<>>}, net_amount : NetAmountInputs, frequency : FrequencyInputs]
        \cup [label : {<<"  Rent ">>}, net_amount : {Num(5000)}, frequency : {<<"monthly">>}]

GrossInputs ==
    {Missing, Null, Text, Num(-50000), Num(-1), Num(0), Num(15001), Num(60000),
     NumStr(100000)}

FilingInputs == {<<>>, <<"MFJ">>, <<"HoH">>, <<"bogus">>}

StateInputs == {<<>>, <<"ca">>, <<"NY">>, <<"FL">>, <<"tx">>}

EstimatePayloads ==
    [gross_annual : GrossInputs, filing_status : FilingInputs, state : StateInputs]

NoResponse == [op |-> "none", payload |-> <<>>, status |-> 0, body |-> <<>>]

-----------------------------------------------------------------------------
(* The handlers, one request served at a time *)

\* POST /api/estimate
api_estimate ==
    \E payload \in EstimatePayloads :
        /\ nops < MaxOps
        /\ resp' = [op |-> "estimate", payload |-> payload, status |-> 200,
                    body |-> EstimateBody(payload)]
        /\ nops' = nops + 1
        /\ UNCHANGED <<file, clock, savedLog, activityLog, calc, concVars>>

\* POST /api/net_income
api_save_net_income ==
    \E payload \in WritePayloads :
        LET r == SaveBody(_load_data(file), payload, clock)
        IN  /\ nops < MaxOps
            /\ file' = _save_data(r.data)
            /\ resp' = [op |-> "save", payload |-> payload, status |-> 200,
                        body |-> [ok |-> TRUE, entry |-> r.entry]]
            /\ savedLog' = Append(savedLog, r.entry)
            /\ activityLog' = Append(activityLog, r.message)
            /\ clock' = clock + 1
            /\ nops' = nops + 1
            /\ UNCHANGED <<calc, concVars>>

\* the early return of lines 290-291 on any list shorter than two entries
EditRefusedShort(data) == Len(data.net_income_entries) < 2

\* lines 289-291: `if not entries: return ..., 400`
EditRefused(data) == data.net_income_entries = <<>>

\* PUT /api/net_income/latest
api_update_latest_net_income ==
    \E payload \in WritePayloads :
        LET data == _load_data(file)
        IN  /\ nops < MaxOps
            /\ nops' = nops + 1
            /\ clock' = clock + 1
            /\ UNCHANGED <<calc, concVars>>
            /\ IF EditRefused(data)
               THEN /\ file' = FileAfterLoad(file)
                    /\ resp' = [op |-> "edit", payload |-> payload, status |-> 400,
                                body |-> [ok |-> FALSE,
                                          error |-> "No net income entry to edit."]]
                    /\ UNCHANGED <<savedLog, activityLog>>
               ELSE LET r == EditBody(data, payload, clock)
                    IN  /\ file' = _save_data(r.data)
                        /\ resp' = [op |-> "edit", payload |-> payload, status |-> 200,
                                    body |-> [ok |-> TRUE, entry |-> r.entry]]
                        /\ savedLog' = [savedLog EXCEPT ![Len(savedLog)] = r.entry]
                        /\ activityLog' = Append(activityLog, r.message)

-----------------------------------------------------------------------------
(* The handlers, two requests served concurrently (the threaded dev server) *)
(* A step is one access to the file; a read or a write of the file is atomic. *)

Procs == {1, 2}

ConcPayloads ==
    [label : {<<>>}, net_amount : {Text, Num(5000), Num(120)},
     frequency : {<<>>, <<"Weekly">>}]

Requests == [op : {"save", "edit"}, payload : ConcPayloads]

NoRequest == [op |-> "none", payload |-> <<>>]

NoLocal == [data |-> EmptyDoc, at |-> 0]

NoOut == [status |-> 0, ok |-> FALSE, entry |-> <<>>, message |-> <<>>]

\* the data a handler writes back, were it loaded again right before the write
HandlerDataReloaded(p) == _load_data(file)

\* the `data` dict a handler mutates and writes back: the one it loaded
HandlerData(p) == local[p].data

\* _load_data line 119: the request arrives and tests os.path.exists(DATA_PATH)
LoadCheck(p) ==
    \E r \in Requests :
        /\ pc[p] = "idle"
        /\ req' = [req EXCEPT ![p] = r]
        /\ pc' = [pc EXCEPT ![p] = IF file.exists THEN "read" ELSE "create"]
        /\ UNCHANGED <<file, clock, local, out, writes, resp, savedLog, activityLog,
                       nops, calc>>

\* _load_data lines 120-122: write the empty document over the path
LoadCreate(p) ==
    /\ pc[p] = "create"
    /\ file' = [exists |-> TRUE, net_income_entries |-> <<>>, activity |-> <<>>]
    /\ pc' = [pc EXCEPT ![p] = "read"]
    /\ UNCHANGED <<clock, req, local, out, writes, resp, savedLog, activityLog,
                   nops, calc>>

\* _load_data lines 123-124: read the whole file
LoadRead(p) ==
    /\ pc[p] = "read"
    /\ local' = [local EXCEPT ![p] = [data |-> _load_data(file), at |-> Len(writes)]]
    /\ pc' = [pc EXCEPT ![p] = "loaded"]
    /\ UNCHANGED <<file, clock, req, out, writes, resp, savedLog, activityLog,
                   nops, calc>>

\* the rest of the handler: mutate the loaded data, _save_data, respond
MutateAndSave(p) ==
    /\ pc[p] = "loaded"
    /\ pc' = [pc EXCEPT ![p] = "done"]
    /\ clock' = clock + 1
    /\ UNCHANGED <<req, local, resp, savedLog, activityLog, nops, calc>>
    /\ IF req[p].op = "edit" /\ EditRefused(HandlerData(p))
       THEN /\ out' = [out EXCEPT ![p] = [status |-> 400, ok |-> FALSE,
                                          entry |-> <<>>, message |-> <<>>]]
            /\ UNCHANGED <<file, writes>>
       ELSE LET r == IF req[p].op = "save"
                     THEN SaveBody(HandlerData(p), req[p].payload, clock)
                     ELSE EditBody(HandlerData(p), req[p].payload, clock)
            IN  /\ file' = _save_data(r.data)
                /\ writes' = Append(writes, p)
                /\ out' = [out EXCEPT ![p] = [status |-> 200, ok |-> TRUE,
                                              entry |-> <<r.entry>>,
                                              message |-> <<r.message>>]]

-----------------------------------------------------------------------------
(* Initial states and specifications *)

DefaultPayload == [label |-> <<>>, net_amount |-> Num(5000), frequency |-> <<>>]

\* the file after k <= EntriesCap saves of the default payload at times 1..k
FileAfterSaves(k) ==
    LET saved == [i \in 1..k |-> SaveBody(EmptyDoc, DefaultPayload, i)]
    IN  _save_data([net_income_entries |-> TrimEntries([i \in 1..k |-> saved[i].entry]),
                    activity |-> LastN([i \in 1..k |-> saved[i].message], ActivityCap)])

IdleCalc == [table |-> NoTaxBrackets, last |-> NoCall, prev |-> NoCall]

IdleConc ==
    /\ pc = [p \in Procs |-> "off"]
    /\ req = [p \in Procs |-> NoRequest]
    /\ local = [p \in Procs |-> NoLocal]
    /\ out = [p \in Procs |-> NoOut]
    /\ writes = <<>>

\* the store as a server start finds it: f on disk, time past f's last entry
StoreAt(f) ==
    /\ file = f
    /\ clock = Len(f.net_income_entries) + 1
    /\ resp = NoResponse
    /\ savedLog = f.net_income_entries
    /\ activityLog = f.activity
    /\ nops = 0

\* no data file yet, or an empty one
FreshFiles == {NoFile, FileAfterSaves(0)}

\* files left by earlier runs, one save below a cap or at it
FullFiles ==
    {FileAfterSaves(ActivityCap - 1), FileAfterSaves(EntriesCap - 1),
     FileAfterSaves(EntriesCap)}

Init ==
    /\ \E f \in FreshFiles : StoreAt(f)
    /\ calc = IdleCalc
    /\ IdleConc

Next ==
    \/ api_estimate
    \/ api_save_net_income
    \/ api_update_latest_net_income

Spec == Init /\ [][Next]_vars

InitCap ==
    /\ \E f \in FullFiles : StoreAt(f)
    /\ calc = IdleCalc
    /\ IdleConc

NextCap ==
    \/ api_save_net_income
    \/ api_update_latest_net_income

SpecCap == InitCap /\ [][NextCap]_vars

InitCalcOnly ==
    /\ InitCalc
    /\ StoreAt(NoFile)
    /\ IdleConc

NextCalc == Compute

SpecCalc == InitCalcOnly /\ [][NextCalc]_vars

InitEst ==
    /\ StoreAt(NoFile)
    /\ calc = IdleCalc
    /\ IdleConc

NextEst == api_estimate

SpecEst == InitEst /\ [][NextEst]_vars

InitConc ==
    /\ \E f \in FreshFiles \cup {FileAfterSaves(1)} : StoreAt(f)
    /\ calc = IdleCalc
    /\ pc = [p \in Procs |-> "idle"]
    /\ req = [p \in Procs |-> NoRequest]
    /\ local = [p \in Procs |-> NoLocal]
    /\ out = [p \in Procs |-> NoOut]
    /\ writes = <<>>

NextConc ==
    \E p \in Procs :
        \/ LoadCheck(p)
        \/ LoadCreate(p)
        \/ LoadRead(p)
        \/ MutateAndSave(p)

SpecConc == InitConc /\ [][NextConc]_vars

-----------------------------------------------------------------------------
(* Properties *)

Range(s) == { s[i] : i \in 1..Len(s) }

Last(s) == s[Len(s)]

\* the portion of income x inside band i of table t: between upper_(i-1) and upper_i
InsideBand(x, t, i) ==
    LET below == IF i = 1 THEN 0 ELSE t[i - 1][1]
        top == IF t[i][1] = Inf THEN x ELSE Min(x, t[i][1])
    IN  Max(0, top - below)

RECURSIVE SumOfBands(_, _, _)
SumOfBands(x, t, i) ==
    IF i > Len(t) THEN 0 ELSE t[i][2] * InsideBand(x, t, i) + SumOfBands(x, t, i + 1)

\* standard marginal-bracket tax of income x under table t, in 1/RateScale units
StandardTax(x, t) == SumOfBands(x, t, 1)

\* C1: for every taxable income >= 0 and every table whose upper limits strictly
\* increase and end in infinity, calc_marginal_tax returns the sum over the bands
\* of rate_i * max(0, min(income, upper_i) - upper_(i-1)), with upper_0 = 0.
C1_MarginalBracketTax ==
    (calc.last.made /\ calc.last.income >= 0)
        => calc.last.tax = StandardTax(calc.last.income, calc.table)

\* an income reaching into the last of three bands, taxed at three different rates
C1_Witness ==
    /\ calc.last.made
    /\ Len(calc.table) = 3
    /\ calc.last.income > calc.table[2][1]
    /\ calc.table[1][2] # calc.table[2][2]
    /\ calc.table[2][2] # calc.table[3][2]
    /\ calc.last.tax > 0

\* C2: for a fixed valid table and two taxable incomes 0 <= x <= y, the tax
\* computed for x is at most the tax computed for y.
C2_Monotone ==
    (calc.last.made /\ calc.prev.made)
        => /\ (0 <= calc.prev.income /\ calc.prev.income <= calc.last.income)
                => calc.prev.tax <= calc.last.tax
           /\ (0 <= calc.last.income /\ calc.last.income <= calc.prev.income)
                => calc.last.tax <= calc.prev.tax

\* two calls on one table whose rates decrease, the larger income in a later band
C2_Witness ==
    /\ calc.prev.made
    /\ calc.last.made
    /\ Len(calc.table) >= 2
    /\ calc.table[1][2] > calc.table[2][2]
    /\ 0 <= calc.prev.income
    /\ calc.prev.income <= calc.table[1][1]
    /\ calc.last.income > calc.table[1][1]
    /\ calc.prev.tax < calc.last.tax

\* C3: an estimate for gross_annual <= 0, whatever the filing status and state,
\* has federal taxable income, federal tax, state tax, total tax and net_annual
\* all 0; and no estimate has a negative tax or a negative net income.
C3_NonPositiveGrossIsZero ==
    resp.op = "estimate" =>
        /\ resp.body.gross_annual <= 0 =>
              /\ resp.body.federal.taxable_income = 0
              /\ resp.body.federal.federal_tax = 0
              /\ resp.body.state_detail.state_tax = 0
              /\ resp.body.total_tax = 0
              /\ resp.body.net_annual = 0
        /\ resp.body.federal.federal_tax >= 0
        /\ resp.body.state_detail.state_tax >= 0
        /\ resp.body.total_tax >= 0
        /\ resp.body.net_annual >= 0

\* a negative gross income estimated for a taxed state and a joint filer
C3_Witness ==
    /\ resp.op = "estimate"
    /\ resp.body.gross_annual < 0
    /\ resp.body.state = "CA"
    /\ resp.body.filing_status = "mfj"
    /\ resp.body.net_annual = 0

\* the n most recent elements of a history, oldest first
MostRecent(log, n) ==
    LET k == Min(n, Len(log))
    IN  [i \in 1..k |-> log[Len(log) - k + i]]

\* C4: after any sequence of saves and edits the persisted net_income_entries
\* holds at most 100 entries, and they are the most recent (up to) 100 saved
\* entries in save order; the entry a save has just stored is the last one.
C4_KeepsMostRecentEntries ==
    /\ Len(file.net_income_entries) <= EntriesCap
    /\ file.net_income_entries = MostRecent(savedLog, EntriesCap)
    /\ resp.op = "save" => Last(file.net_income_entries) = resp.body.entry

\* a save on a full list: more than 100 saved so far, the oldest no longer kept
C4_Witness ==
    /\ resp.op = "save"
    /\ Len(savedLog) > EntriesCap
    /\ Len(file.net_income_entries) = EntriesCap
    /\ savedLog[1] \notin Range(file.net_income_entries)

\* C5: every successful save or edit appends one activity line at the end, no
\* kept line is modified or reordered, and the persisted activity holds at most
\* 50 lines: the most recent 50 of all lines logged, in order.
C5_ActivityAppendOnlyCapped ==
    /\ Len(file.activity) <= ActivityCap
    /\ file.activity = MostRecent(activityLog, ActivityCap)
    /\ resp.op \in {"save", "edit"} =>
          /\ Last(file.activity) = Last(activityLog)
          /\ Last(file.activity).message =
                <<IF resp.op = "save" THEN "Saved" ELSE "Edited latest",
                  resp.body.entry.net_amount, resp.body.entry.frequency>>

\* a successful edit logged onto a full activity list, its oldest line dropped
C5_Witness ==
    /\ resp.op = "edit"
    /\ resp.status = 200
    /\ Len(activityLog) > ActivityCap
    /\ Len(file.activity) = ActivityCap
    /\ Last(file.activity).message[1] = "Edited latest"
    /\ activityLog[1] \notin Range(file.activity)

\* the entries and activity lines a file holds, whether or not it exists yet
Content(f) == <<f.net_income_entries, f.activity>>

Multiplier(frequency) ==
    CASE frequency = "weekly" -> 52
      [] frequency \in {"bi-weekly", "biweekly"} -> 26
      [] frequency = "monthly" -> 12
      [] frequency = "yearly" -> 1

Unrecognized(field) == field # <<>> /\ Lower(field[1]) \notin Frequencies

\* C8 as stated: every save or edit-latest with an unrecognized frequency succeeds
\* and stores net_annual_equivalent equal to net_amount (multiplier 1).
C8_UnrecognizedIsYearly ==
    (resp.op \in {"save", "edit"} /\ Unrecognized(resp.payload.frequency)
        /\ resp.status = 200)
        => resp.body.entry.net_annual_equivalent = resp.body.entry.net_amount

\* C8, amended: a non-empty unrecognized frequency string falls back silently to
\* monthly: every save, and every edit-latest on a non-empty list, with such a
\* frequency succeeds and stores frequency "monthly" and net_annual_equivalent
\* equal to 12 times net_amount.
C8_UnrecognizedIsMonthly ==
    (resp.op \in {"save", "edit"} /\ Unrecognized(resp.payload.frequency)
        /\ resp.payload.frequency # <<"">>)
        => /\ resp.status # 200 => (resp.op = "edit" /\ file.net_income_entries = <<>>)
           /\ resp.status = 200 =>
                /\ resp.body.ok
                /\ resp.body.entry.frequency = "monthly"
                /\ resp.body.entry.net_annual_equivalent = 12 * resp.body.entry.net_amount
                /\ Last(file.net_income_entries) = resp.body.entry

\* an edit with frequency "Daily" that stored 5000 as 60000 a year
C8_Witness ==
    /\ resp.op = "edit"
    /\ resp.status = 200
    /\ resp.payload.frequency = <<"Daily">>
    /\ resp.body.entry.net_amount = 5000
    /\ resp.body.entry.net_annual_equivalent = 60000

\* a numeric field that is missing or is no number
Malformed(field) == field.kind \in {"missing", "null", "text"}

\* C9 as stated: estimate with a missing or non-numeric gross_annual computes
\* with 0, and save and edit-latest with a missing or non-numeric net_amount
\* store net_amount = 0 and net_annual_equivalent = 0.
C9_MalformedNumberIsZero ==
    /\ (resp.op = "estimate" /\ Malformed(resp.payload.gross_annual))
          => (resp.status = 200 /\ resp.body.gross_annual = 0)
    /\ (resp.op \in {"save", "edit"} /\ resp.status = 200
            /\ Malformed(resp.payload.net_amount))
          => /\ resp.body.entry.net_amount = 0
             /\ resp.body.entry.net_annual_equivalent = 0

\* C9, amended: estimate with a missing or non-numeric gross_annual computes with
\* 0 and save with a missing or non-numeric net_amount stores 0 (annual 0);
\* edit-latest with a missing or non-numeric net_amount keeps the net_amount the
\* latest entry had and recomputes the annual equivalent from it.  None of them
\* fails because of the malformed number.
C9_MalformedNumberFallsBack ==
    [][nops' # nops =>
          /\ (resp'.op = "estimate" /\ Malformed(resp'.payload.gross_annual))
                => /\ resp'.status = 200
                   /\ resp'.body.gross_annual = 0
                   /\ resp'.body = EstimateBody([resp'.payload EXCEPT !.gross_annual = Num(0)])
          /\ (resp'.op = "save" /\ Malformed(resp'.payload.net_amount))
                => /\ resp'.status = 200
                   /\ Last(file'.net_income_entries).net_amount = 0
                   /\ Last(file'.net_income_entries).net_annual_equivalent = 0
          /\ (resp'.op = "edit" /\ Malformed(resp'.payload.net_amount)
                  /\ file.net_income_entries # <<>>)
                => /\ resp'.status = 200
                   /\ Last(file'.net_income_entries).net_amount =
                         Last(file.net_income_entries).net_amount
                   /\ Last(file'.net_income_entries).net_annual_equivalent =
                         Last(file.net_income_entries).net_amount
                            * Multiplier(Last(file'.net_income_entries).frequency)]_vars

\* an edit with a non-numeric net_amount that left the stored 5000 in place
C9_Witness ==
    /\ resp.op = "edit"
    /\ resp.status = 200
    /\ resp.payload.net_amount = Text
    /\ resp.payload.frequency = <<"Weekly">>
    /\ Last(file.net_income_entries).net_amount = 5000
    /\ Last(file.net_income_entries).net_annual_equivalent = 260000

\* both concurrent requests answered ok, and both had loaded before either wrote
BothLoadedBeforeEitherWrote ==
    \A p \in Procs : pc[p] = "done" /\ out[p].ok /\ local[p].at = 0

\* C10: when two write requests both load before either writes and both answer
\* ok = true, the persisted file reflects only the later writer: the earlier
\* one's entry (or edit) and its activity line are absent from it.
C10_LastWriterWins ==
    BothLoadedBeforeEitherWrote =>
        LET earlier == writes[1]
            later == writes[2]
        IN  /\ Len(writes) = 2
            /\ out[earlier].entry[1] \notin Range(file.net_income_entries)
            /\ out[earlier].message[1] \notin Range(file.activity)
            /\ Last(file.net_income_entries) = out[later].entry[1]
            /\ Last(file.activity) = out[later].message[1]
            /\ Len(file.activity) = Len(local[later].data.activity) + 1
            /\ Len(file.activity) = Len(local[earlier].data.activity) + 1

\* a save and an edit that interleaved so, the save having written first
C10_Witness ==
    /\ BothLoadedBeforeEitherWrote
    /\ Len(writes) = 2
    /\ req[writes[1]].op = "save"
    /\ req[writes[2]].op = "edit"
    /\ Len(file.net_income_entries) = 1
    /\ Len(file.activity) = 2

====
